---- MODULE Spec2Model ----
(***************************************************************************)
(* Wayne Enterprises Secret Vault: the credential / session state machine  *)
(* of auth.py, app.py and db.py.                                           *)
(*                                                                         *)
(* Every browser session runs the Streamlit script in its own thread; the  *)
(* sessions share one SQLite file and every db.py function opens its own   *)
(* connection and commits on its own.  A step of the model is therefore    *)
(* one statement on the users table together with the session-local code   *)
(* around it and the audit row the handler writes next (audit_logs is a    *)
(* table of its own: the insert commutes with the other sessions'          *)
(* statements on users).                                                   *)
(* Time is in seconds; a TIMESTAMP column holds the value it was given.    *)
(***************************************************************************)
EXTENDS Integers, Sequences, FiniteSets, TLC

\* ------------------------------------------------------------------ bounds
\* Script runs (requests) started over all sessions.
MaxRuns == 3

\* ------------------------------------------------------- program constants
\* db.py: "if attempts >= 5"
LOCKOUT_THRESHOLD == 5
\* db.py: timedelta(minutes=15), in seconds
LOCKOUT_SECONDS == 900
\* db.py: get_audit_logs, LIMIT 100 for the admin and LIMIT 50 for a user
AUDIT_LIMIT_ADMIN == 100
AUDIT_LIMIT_USER == 50
\* app.py: timedelta(minutes=15), in seconds
SESSION_IDLE_SECONDS == 900
\* pyotp.TOTP default interval, in seconds
TOTP_INTERVAL == 30
\* security.py: totp.verify(token, valid_window=1)
VALID_WINDOW == 1
\* auth.py: len(totp_code) != 6
TOTP_DIGITS == 6

\* ------------------------------------------------------------- input sets
Sessions == {"s1", "s2"}
\* registered accounts and one address that is not registered
Registered == {"alice", "root"}
\* what is typed into the login form: alice with her password and with a
\* wrong one, root with his password, an unknown address, an empty field
LoginInputs ==
    {<<"alice", "pw1">>, <<"alice", "pw2">>, <<"root", "pw2">>,
     <<"x@y.com", "pw1">>, <<"", "pw1">>}

\* NULL / None of a nullable column or field: the empty tuple; a value v is <<v>>
Null == << >>
Some(v) == <<v>>
None == "None"

\* the instants the clock is read at: the start, and one second before, at
\* and one second after the 15 minutes are over
TimePoints ==
    {0, LOCKOUT_SECONDS - 1, LOCKOUT_SECONDS, LOCKOUT_SECONDS + 1}

VARIABLES
    now,      \* datetime.now()
    users,    \* table users, by email
    audit,    \* table audit_logs, in insertion (id) order
    sess,     \* st.session_state of each session
    pc,       \* where each session's script is
    loc,      \* local variables of the handler a session is in
    msg,      \* what the last handler of a session showed
    view,     \* what the last run of a session read for its dashboard
    runs,     \* script runs started
    req,      \* history: the request each session's latest run served
    last,     \* history: the session that started the latest run
    streak,   \* history: failed password logins of an account since the
              \* last verified password or expired lockout
    storage,  \* whether an INSERT into audit_logs succeeds: "ok" or "failing"
    calc      \* a call of a function of security.py: its arguments and result

vars == <<now, users, audit, sess, pc, loc, msg, view, runs, req, last, streak,
          storage, calc>>

\* ------------------------------------------------------------ security.py
\* A str that is taken apart (a stored hash) is a sequence of pieces, each a
\* string without the separator or the separator "$" itself.

\* the pieces of a str put together again
RECURSIVE join(_)
join(pieces) == IF pieces = << >> THEN "" ELSE pieces[1] \o join(Tail(pieces))

\* str.split(sep): the parts between the separators, one part when there is
\* no separator (also for the empty str)
RECURSIVE split(_, _)
split(str, sep) ==
    IF \A i \in 1..Len(str) : str[i] # sep
    THEN <<str>>
    ELSE LET i == CHOOSE i \in 1..Len(str) :
                      str[i] = sep /\ \A j \in 1..(i - 1) : str[j] # sep
         IN  <<SubSeq(str, 1, i - 1)>> \o split(SubSeq(str, i + 1, Len(str)), sep)

\* sha256((password + salt).encode()).hexdigest(), taken as collision free
sha256(password, salt) == "sha256(" \o password \o salt \o ")"

\* hash_password with the salt secrets.token_hex(16) drew
hash_password(password, salt) == <<salt, "$", sha256(password, salt)>>

\* salt, pwd_hash = parts: the two values, or Null for the ValueError
unpack(parts) == IF Len(parts) = 2 THEN Some(parts) ELSE Null

\* verify_password that ignores what follows a second separator
verify_password_first_separator(password, stored_hash) ==
    LET parts == split(stored_hash, "$")
    IN  IF Len(parts) < 2
        THEN FALSE
        ELSE sha256(password, join(parts[1])) = join(parts[2])

verify_password(password, stored_hash) ==
    LET unpacked == unpack(split(stored_hash, "$"))
    IN  IF unpacked = Null
        THEN FALSE
        ELSE sha256(password, join(unpacked[1][1])) = join(unpacked[1][2])

\* the 6-digit code of a secret at a time step, taken as collision free
totp_at(secret, counter) == [len |-> TOTP_DIGITS, digits |-> TRUE, otp |-> <<secret, counter>>]

timecode(t) == t \div TOTP_INTERVAL

\* verify_totp that takes the current code of any secret
verify_totp_any_secret(secret, token, t) ==
    \E i \in (0 - VALID_WINDOW)..VALID_WINDOW :
        /\ timecode(t) + i >= 0
        /\ token.len = TOTP_DIGITS
        /\ token.otp # << >>
        /\ token.otp[2] = timecode(t) + i

\* verify_totp with valid_window=0: the code of the current step only
verify_totp_exact(secret, token, t) ==
    token = totp_at(secret, timecode(t))

verify_totp(secret, token, t) ==
    \E i \in (0 - VALID_WINDOW)..VALID_WINDOW :
        /\ timecode(t) + i >= 0
        /\ token = totp_at(secret, timecode(t) + i)

\* characters standing for the classes the regular expressions tell apart:
\* [A-Z], [a-z], \d, [!@#$%^&*(),.?":{}|<>], and a character of none of them
Chars == {"A", "a", "1", "!", "_"}

\* re.search(pattern, password) is not None, for a character class
re_search(class, password) == \E i \in 1..Len(password) : password[i] \in class

\* password_policy_ok that looks for the uppercase letter before the length
password_policy_ok_upper_first(password) ==
    IF ~re_search({"A"}, password)
    THEN <<FALSE, "Password must contain at least one uppercase letter">>
    ELSE IF Len(password) < 8
    THEN <<FALSE, "Password must be at least 8 characters long">>
    ELSE IF ~re_search({"a"}, password)
    THEN <<FALSE, "Password must contain at least one lowercase letter">>
    ELSE IF ~re_search({"1"}, password)
    THEN <<FALSE, "Password must contain at least one number">>
    ELSE IF ~re_search({"!"}, password)
    THEN <<FALSE, "Password must contain at least one special character (!@#$%^&*)">>
    ELSE <<TRUE, "Password meets requirements">>

password_policy_ok(password) ==
    IF Len(password) < 8
    THEN <<FALSE, "Password must be at least 8 characters long">>
    ELSE IF ~re_search({"A"}, password)
    THEN <<FALSE, "Password must contain at least one uppercase letter">>
    ELSE IF ~re_search({"a"}, password)
    THEN <<FALSE, "Password must contain at least one lowercase letter">>
    ELSE IF ~re_search({"1"}, password)
    THEN <<FALSE, "Password must contain at least one number">>
    ELSE IF ~re_search({"!"}, password)
    THEN <<FALSE, "Password must contain at least one special character (!@#$%^&*)">>
    ELSE <<TRUE, "Password meets requirements">>

\* A Fernet token is a sequence of four pieces: version, IV, AES body, HMAC.
\* A piece says what it is and which key, IV and text it was made from.
Piece(kind, key, iv, text, bkey, biv) ==
    [kind |-> kind, key |-> key, iv |-> iv, text |-> text, bkey |-> bkey, biv |-> biv]

\* the HMAC a key computes over the IV field and the body of a token
Hmac(key, ivfield, body) == Piece("hmac", key, ivfield.iv, body.text, body.key, body.iv)

\* Fernet(key).encrypt(data) with the IV os.urandom drew
fernet_encrypt(key, iv, data) ==
    LET ivfield == Piece("iv", "", iv, "", "", "")
        body == Piece("aes", key, iv, data, "", "")
    IN  <<Piece("version", "", "", "", "", ""), ivfield, body, Hmac(key, ivfield, body)>>

\* Fernet(key).decrypt(token): the data, or Null for InvalidToken
fernet_decrypt(key, token) ==
    IF /\ Len(token) = 4
       /\ token[1].kind = "version"
       /\ token[2].kind = "iv"
       /\ token[3].kind = "aes"
       /\ token[4] = Hmac(key, token[2], token[3])
       /\ token[3].key = key
       /\ token[3].iv = token[2].iv
    THEN Some(token[3].text)
    ELSE Null

\* the key of the module-level cipher
FERNET_KEY == "K"

\* encrypt_note; the encrypted str is the token, the empty str is << >>
encrypt_note(plaintext, iv) ==
    IF plaintext = "" THEN << >> ELSE fernet_encrypt(FERNET_KEY, iv, plaintext)

decrypt_note(ciphertext) ==
    IF ciphertext = << >>
    THEN ""
    ELSE LET decrypted == fernet_decrypt(FERNET_KEY, ciphertext)
         IN  IF decrypted = Null THEN "[Decryption failed]" ELSE decrypted[1]

\* ------------------------------------------------------------------ db.py
\* SELECT ... FROM users WHERE email = ?  (a row, or None)
get_user(email) ==
    IF email \in DOMAIN users THEN Some(users[email]) ELSE Null

\* update_failed_attempts locking one failure late ("attempts > 5")
update_failed_attempts_late(email, attempts, t) ==
    IF email \notin DOMAIN users THEN users
    ELSE IF attempts > LOCKOUT_THRESHOLD
    THEN [users EXCEPT ![email].failed_login_attempts = attempts,
                       ![email].lockout_until = Some(t + LOCKOUT_SECONDS)]
    ELSE [users EXCEPT ![email].failed_login_attempts = attempts]

\* the users table after update_failed_attempts(email, attempts) at time t
update_failed_attempts(email, attempts, t) ==
    IF email \notin DOMAIN users THEN users
    ELSE IF attempts >= LOCKOUT_THRESHOLD
    THEN [users EXCEPT ![email].failed_login_attempts = attempts,
                       ![email].lockout_until = Some(t + LOCKOUT_SECONDS)]
    ELSE [users EXCEPT ![email].failed_login_attempts = attempts]

\* the users table after reset_failed_attempts(email)
reset_failed_attempts(email) ==
    IF email \notin DOMAIN users THEN users
    ELSE [users EXCEPT ![email].failed_login_attempts = 0,
                       ![email].lockout_until = Null]

\* is_account_locked taking the last second of the lockout as over
is_account_locked_early(user, t) ==
    IF user = Null THEN "open"
    ELSE IF user[1].lockout_until # Null
    THEN IF t + 1 < user[1].lockout_until[1] THEN "locked" ELSE "expired"
    ELSE "open"

\* is_account_locked on the row it read: "locked", "expired" (the lock is
\* over and reset_failed_attempts is called next) or "open"
is_account_locked(user, t) ==
    IF user = Null THEN "open"
    ELSE IF user[1].lockout_until # Null
    THEN IF t < user[1].lockout_until[1] THEN "locked" ELSE "expired"
    ELSE "open"

\* log_audit that lets the exception of a failed INSERT out
log_audit_raises(user_email, action, attempt, t) ==
    IF storage = "ok"
    THEN [audit |-> Append(audit, [id |-> Len(audit) + 1, user_email |-> user_email,
                                   action |-> action, attempt |-> attempt,
                                   created_at |-> t]),
          raised |-> FALSE]
    ELSE [audit |-> audit, raised |-> TRUE]

\* log_audit that keeps only the latest row of a user
log_audit_replace(user_email, action, attempt, t) ==
    [audit |-> Append(SelectSeq(audit, LAMBDA row : row.user_email # user_email),
                      [id |-> Len(audit) + 1, user_email |-> user_email,
                       action |-> action, attempt |-> attempt, created_at |-> t]),
     raised |-> FALSE]

\* log_audit that writes no row
log_audit_drop(user_email, action, attempt, t) ==
    [audit |-> audit, raised |-> FALSE]

\* log_audit(user_email, action, ...) at time t: the audit_logs table it
\* leaves and whether it raised.  A failed INSERT is caught by the except
\* clause and printed: the table is as it was and nothing is raised.
log_audit(user_email, action, attempt, t) ==
    IF storage = "ok"
    THEN [audit |-> Append(audit, [id |-> Len(audit) + 1, user_email |-> user_email,
                                   action |-> action, attempt |-> attempt,
                                   created_at |-> t]),
          raised |-> FALSE]
    ELSE [audit |-> audit, raised |-> FALSE]

\* ORDER BY created_at DESC names no second key, and created_at has the
\* resolution of one second: SQLite leaves the order of rows with the same
\* created_at unspecified.  The two orders a scan of the table gives:
TieOrders == {"rowid", "reverse rowid"}

\* row r1 comes before row r2 in ORDER BY created_at DESC, ties as in tie
OrderedBefore(r1, r2, tie) ==
    \/ r1.created_at > r2.created_at
    \/ /\ r1.created_at = r2.created_at
       /\ IF tie = "rowid" THEN r1.id < r2.id ELSE r1.id > r2.id

RECURSIVE OrderBy(_, _)
OrderBy(rows, tie) ==
    IF rows = {} THEN << >>
    ELSE LET first == CHOOSE r \in rows :
                          \A o \in rows \ {r} : OrderedBefore(r, o, tie)
         IN <<first>> \o OrderBy(rows \ {first}, tie)

Limit(rows, n) == SubSeq(rows, 1, IF Len(rows) < n THEN Len(rows) ELSE n)

\* the ids of the rows get_audit_logs(user_email, admin) returns, in the
\* order it returns them
get_audit_logs(user_email, admin, tie) ==
    LET rows == {audit[i] : i \in {i \in 1..Len(audit) :
                                     admin \/ audit[i].user_email = user_email}}
        ordered == OrderBy(rows, tie)
    IN [i \in 1..Len(Limit(ordered, IF admin THEN AUDIT_LIMIT_ADMIN ELSE AUDIT_LIMIT_USER))
            |-> ordered[i].id]

\* ------------------------------------------------------------------ app.py
\* st.session_state as the script leaves it on a session's first run
NewSession(t) ==
    [authenticated |-> FALSE, totp_verified |-> FALSE, user_email |-> None,
     totp_secret |-> None, user_role |-> "user", last_activity |-> t]

\* check_session_timeout that does not refresh last_activity
check_session_timeout_no_refresh(ss, t) ==
    IF ss.authenticated
    THEN IF t - ss.last_activity > SESSION_IDLE_SECONDS
         THEN [sess |-> [ss EXCEPT !.authenticated = FALSE,
                                   !.totp_verified = FALSE,
                                   !.user_email = None],
               rerun |-> TRUE]
         ELSE [sess |-> ss, rerun |-> FALSE]
    ELSE [sess |-> ss, rerun |-> FALSE]

\* check_session_timeout that expires a session one second early
check_session_timeout_early(ss, t) ==
    IF ss.authenticated
    THEN IF t - ss.last_activity >= SESSION_IDLE_SECONDS - 1
         THEN [sess |-> [ss EXCEPT !.authenticated = FALSE,
                                   !.totp_verified = FALSE,
                                   !.user_email = None],
               rerun |-> TRUE]
         ELSE [sess |-> [ss EXCEPT !.last_activity = t], rerun |-> FALSE]
    ELSE [sess |-> ss, rerun |-> FALSE]

\* check_session_timeout that looks at fully authenticated sessions only
check_session_timeout_auth_only(ss, t) ==
    IF ss.authenticated /\ ss.totp_verified
    THEN IF t - ss.last_activity > SESSION_IDLE_SECONDS
         THEN [sess |-> [ss EXCEPT !.authenticated = FALSE,
                                   !.totp_verified = FALSE,
                                   !.user_email = None],
               rerun |-> TRUE]
         ELSE [sess |-> [ss EXCEPT !.last_activity = t], rerun |-> FALSE]
    ELSE [sess |-> ss, rerun |-> FALSE]

\* check_session_timeout that forgets to clear totp_verified on expiry
check_session_timeout_keeps_totp(ss, t) ==
    IF ss.authenticated
    THEN IF t - ss.last_activity > SESSION_IDLE_SECONDS
         THEN [sess |-> [ss EXCEPT !.authenticated = FALSE,
                                   !.user_email = None],
               rerun |-> TRUE]
         ELSE [sess |-> [ss EXCEPT !.last_activity = t], rerun |-> FALSE]
    ELSE [sess |-> ss, rerun |-> FALSE]

\* check_session_timeout on session state ss at time t: the state it leaves
\* and whether it ended the run with st.rerun()
check_session_timeout(ss, t) ==
    IF ss.authenticated
    THEN IF t - ss.last_activity > SESSION_IDLE_SECONDS
         THEN [sess |-> [ss EXCEPT !.authenticated = FALSE,
                                   !.totp_verified = FALSE,
                                   !.user_email = None],
               rerun |-> TRUE]
         ELSE [sess |-> [ss EXCEPT !.last_activity = t], rerun |-> FALSE]
    ELSE [sess |-> ss, rerun |-> FALSE]

\* the page the main dispatch renders for session state ss
Page(ss) ==
    IF ~ss.authenticated THEN "auth"
    ELSE IF ~ss.totp_verified THEN "totp"
    ELSE "dashboard"

\* --------------------------------------------------------- initial state
NoLoc == [email |-> None, password |-> None, failed_attempts |-> 0,
          totp_secret |-> None, role |-> None]
Msg(text, remaining) == [text |-> text, remaining |-> remaining]
NoMsg == Msg("", 0)
\* what a handler shows after its log_audit call r: an exception that got
\* out of log_audit ends the run with Streamlit's traceback
shown(r, m) == IF r.raised THEN Msg("Traceback", 0) ELSE m
NoCode == [len |-> 0, digits |-> TRUE, otp |-> << >>]
NoReq == [op |-> "none", email |-> None, password |-> None, code |-> NoCode]
NoView == [transactions_of |-> None, logs |-> "none", logs_of |-> None, at |-> 0,
           rows |-> << >>]

\* the audit rows k failed logins of an account leave behind
RECURSIVE FailedLoginRows(_, _)
FailedLoginRows(email, k) ==
    IF k = 0 THEN << >>
    ELSE Append(FailedLoginRows(email, k - 1),
                [id |-> k, user_email |-> email,
                 action |-> "Login failed - incorrect password",
                 attempt |-> k, created_at |-> 0])

UserRow(id, email, password, salt, secret, role, failed) ==
    [id |-> id, email |-> email, password_hash |-> hash_password(password, salt),
     totp_secret |-> secret, failed_login_attempts |-> failed,
     lockout_until |-> Null, role |-> role]

\* The database file outlives the process: alice has no, three or four
\* failed logins on record from earlier runs, root has none.
InitAttempts == {0, LOCKOUT_THRESHOLD - 2, LOCKOUT_THRESHOLD - 1}

\* no call of a security.py function is being looked at
NoCall == [fn |-> "none", args |-> << >>, out |-> Null]

\* the database with k failed logins of alice on record, the sessions new
InitApp(k) ==
    /\ now = 0
    /\ users = [e \in Registered |->
                  IF e = "alice"
                  THEN UserRow(1, e, "pw1", "saltA", "KA", "user", k)
                  ELSE UserRow(2, e, "pw2", "saltR", "KR", "admin", 0)]
    /\ audit = FailedLoginRows("alice", k)
    /\ streak = [e \in Registered |-> IF e = "alice" THEN k ELSE 0]
    /\ sess = [s \in Sessions |-> NewSession(0)]
    /\ pc = [s \in Sessions |-> "idle"]
    /\ loc = [s \in Sessions |-> NoLoc]
    /\ msg = [s \in Sessions |-> NoMsg]
    /\ view = [s \in Sessions |-> NoView]
    /\ runs = 0
    /\ req = [s \in Sessions |-> NoReq]
    /\ last = "s1"
    /\ storage = "ok"

Init ==
    /\ \E k \in InitAttempts : InitApp(k)
    /\ calc = NoCall

\* ----------------------------------------------------------------- clock
Advance ==
    /\ \E t \in TimePoints : t > now /\ now' = t
    /\ UNCHANGED <<users, audit, sess, pc, loc, msg, view, runs, req, last, streak,
                   storage, calc>>

\* a session starts a script run: it is between runs and runs are left
StartRun(s, op, email, password, code) ==
    /\ pc[s] = "idle"
    /\ runs < MaxRuns
    /\ runs' = runs + 1
    /\ req' = [req EXCEPT ![s] = [op |-> op, email |-> email,
                                  password |-> password, code |-> code]]
    /\ last' = s

\* ------------------------------------------------------- auth.login_form
\* the error shown after a wrong password that made the count new_attempts
bad_password_message(new_attempts) ==
    LET remaining == LOCKOUT_THRESHOLD - new_attempts IN
    IF remaining > 0
    THEN Msg("Invalid credentials. N attempts remaining.", remaining)
    ELSE Msg("Account locked for 15 minutes due to too many failed attempts.", 0)

\* bind_session that leaves the role of the session as it was
bind_session_no_role(ss, email, totp_secret, role, t) ==
    [ss EXCEPT !.authenticated = TRUE,
               !.user_email = email,
               !.totp_secret = totp_secret,
               !.last_activity = t]

\* the session state login_form sets after the password was verified
bind_session(ss, email, totp_secret, role, t) ==
    [ss EXCEPT !.authenticated = TRUE,
               !.user_email = email,
               !.totp_secret = totp_secret,
               !.user_role = role,
               !.last_activity = t]

\* The login form is submitted: the empty-field check, then the SELECT of
\* is_account_locked and its comparison with the clock; a locked account
\* ends the handler with the lockout error and its audit record.
LoginSubmit(s, email, password) ==
    /\ StartRun(s, "login", email, password, NoCode)
    /\ Page(sess[s]) = "auth"
    /\ view' = [view EXCEPT ![s] = NoView]
    /\ IF email = "" \/ password = ""
       THEN /\ msg' = [msg EXCEPT ![s] = Msg("Please enter both email and password", 0)]
            /\ UNCHANGED <<pc, loc, audit>>
       ELSE LET locked == is_account_locked(get_user(email), now) IN
            IF locked = "locked"
            THEN LET r == log_audit(email, "Login attempt - account locked", 0, now) IN
                 /\ msg' = [msg EXCEPT ![s] = shown(r, Msg("Account locked due to multiple failed login attempts. Please try again in 15 minutes.", 0))]
                 /\ audit' = r.audit
                 /\ UNCHANGED <<pc, loc>>
            ELSE /\ pc' = [pc EXCEPT ![s] = IF locked = "expired" THEN "unlock"
                                                                  ELSE "get_user"]
                 /\ loc' = [loc EXCEPT ![s] = [NoLoc EXCEPT !.email = email,
                                                            !.password = password]]
                 /\ msg' = [msg EXCEPT ![s] = NoMsg]
                 /\ UNCHANGED audit
    /\ UNCHANGED <<calc, storage, now, users, sess, streak>>

\* is_account_locked found the lock expired: reset_failed_attempts
Unlock(s) ==
    /\ pc[s] = "unlock"
    /\ users' = reset_failed_attempts(loc[s].email)
    /\ streak' = [streak EXCEPT ![loc[s].email] = 0]
    /\ pc' = [pc EXCEPT ![s] = "get_user"]
    /\ UNCHANGED <<calc, storage, now, audit, sess, loc, msg, view, runs, req, last>>

\* user = get_user(email), then verify_password on the row; an unknown
\* address ends the handler with its audit record and the error
GetUser(s) ==
    /\ pc[s] = "get_user"
    /\ LET user == get_user(loc[s].email) IN
       IF user = Null
       THEN LET r == log_audit(loc[s].email, "Login failed - user not found", 0, now) IN
            /\ audit' = r.audit
            /\ msg' = [msg EXCEPT ![s] = shown(r, Msg("Invalid credentials", 0))]
            /\ pc' = [pc EXCEPT ![s] = "idle"]
            /\ loc' = [loc EXCEPT ![s] = NoLoc]
       ELSE /\ loc' = [loc EXCEPT ![s].failed_attempts = user[1].failed_login_attempts,
                                  ![s].totp_secret = user[1].totp_secret,
                                  ![s].role = user[1].role]
            /\ pc' = [pc EXCEPT ![s] =
                        IF verify_password(loc[s].password, user[1].password_hash)
                        THEN "reset" ELSE "update_failed"]
            /\ UNCHANGED <<audit, msg>>
    /\ UNCHANGED <<calc, storage, now, users, sess, view, runs, req, last, streak>>

\* new_attempts that forgets to count the failure
new_attempts_same(failed_attempts) == failed_attempts

\* new_attempts = failed_attempts + 1
new_attempts(failed_attempts) == failed_attempts + 1

\* wrong password: new_attempts = failed_attempts + 1, update_failed_attempts,
\* the error, the audit record with the new count, return
UpdateFailed(s) ==
    /\ pc[s] = "update_failed"
    /\ LET attempts == new_attempts(loc[s].failed_attempts)
           r == log_audit(loc[s].email, "Login failed - incorrect password",
                          attempts, now)
       IN
       /\ users' = update_failed_attempts(loc[s].email, attempts, now)
       /\ msg' = [msg EXCEPT ![s] = shown(r, bad_password_message(attempts))]
       /\ audit' = r.audit
    /\ streak' = [streak EXCEPT ![loc[s].email] = @ + 1]
    /\ pc' = [pc EXCEPT ![s] = "idle"]
    /\ loc' = [loc EXCEPT ![s] = NoLoc]
    /\ UNCHANGED <<calc, storage, now, sess, view, runs, req, last>>

\* right password: reset_failed_attempts, the session state is set, the
\* audit record, st.rerun()
ResetAndBind(s) ==
    /\ pc[s] = "reset"
    /\ users' = reset_failed_attempts(loc[s].email)
    /\ sess' = [sess EXCEPT ![s] = bind_session(sess[s], loc[s].email,
                                                loc[s].totp_secret, loc[s].role, now)]
    /\ LET r == log_audit(loc[s].email, "Password verified - awaiting 2FA", 0, now) IN
       /\ audit' = r.audit
       /\ msg' = [msg EXCEPT ![s] = shown(r, Msg("Password verified! Please enter your 2FA code.", 0))]
    /\ streak' = [streak EXCEPT ![loc[s].email] = 0]
    /\ pc' = [pc EXCEPT ![s] = "idle"]
    /\ loc' = [loc EXCEPT ![s] = NoLoc]
    /\ UNCHANGED <<calc, storage, now, view, runs, req, last>>

\* -------------------------------------------------------- auth.totp_step
\* what is typed into the code field at time t: the code an authenticator
\* shows now for either secret, the code alice's showed two steps ago,
\* five digits, six characters that are not all digits, nothing
TotpInputs(t) ==
    {totp_at("KA", timecode(t)), totp_at("KR", timecode(t))}
    \cup {totp_at("KA", c) : c \in {c \in {timecode(t) - 2} : c >= 0}}
    \cup {[len |-> 5, digits |-> TRUE, otp |-> << >>],
          [len |-> 6, digits |-> FALSE, otp |-> << >>],
          [len |-> 0, digits |-> TRUE, otp |-> << >>]}

Expired(s, c) ==
    /\ sess' = [sess EXCEPT ![s] = c.sess]
    /\ msg' = [msg EXCEPT ![s] = Msg("Session expired due to inactivity. Please login again.", 0)]
    /\ view' = [view EXCEPT ![s] = NoView]
    /\ UNCHANGED <<calc, storage, now, users, audit, pc, loc, streak>>

\* a run on the 2FA page with the Verify button
TotpSubmit(s, totp_code) ==
    /\ StartRun(s, "totp", None, None, totp_code)
    /\ Page(sess[s]) = "totp"
    /\ LET c == check_session_timeout(sess[s], now) IN
       IF c.rerun THEN Expired(s, c)
       ELSE IF totp_code.len = 0 \/ totp_code.len # TOTP_DIGITS
       THEN /\ sess' = [sess EXCEPT ![s] = c.sess]
            /\ msg' = [msg EXCEPT ![s] = Msg("Please enter a 6-digit code", 0)]
            /\ view' = [view EXCEPT ![s] = NoView]
            /\ UNCHANGED <<calc, storage, now, users, audit, pc, loc, streak>>
       ELSE IF verify_totp(c.sess.totp_secret, totp_code, now)
       THEN LET r == log_audit(c.sess.user_email, "2FA verified - login successful", 0, now) IN
            /\ sess' = [sess EXCEPT ![s] = [c.sess EXCEPT !.totp_verified = TRUE]]
            /\ audit' = r.audit
            /\ msg' = [msg EXCEPT ![s] = shown(r, Msg("Authentication successful!", 0))]
            /\ view' = [view EXCEPT ![s] = NoView]
            /\ UNCHANGED <<calc, storage, now, users, pc, loc, streak>>
       ELSE LET r == log_audit(c.sess.user_email, "2FA verification failed", 0, now) IN
            /\ sess' = [sess EXCEPT ![s] = c.sess]
            /\ audit' = r.audit
            /\ msg' = [msg EXCEPT ![s] = shown(r, Msg("Invalid 2FA code. Please try again.", 0))]
            /\ view' = [view EXCEPT ![s] = NoView]
            /\ UNCHANGED <<calc, storage, now, users, pc, loc, streak>>

\* cancel that leaves the TOTP secret in the session
cancel_session_keeps_secret(ss) ==
    [ss EXCEPT !.authenticated = FALSE,
               !.user_email = None]

\* the session state the Cancel button of totp_step leaves
cancel_session(ss) ==
    [ss EXCEPT !.authenticated = FALSE,
               !.user_email = None,
               !.totp_secret = None]

\* a run on the 2FA page with the Cancel button
TotpCancel(s) ==
    /\ StartRun(s, "cancel", None, None, NoCode)
    /\ Page(sess[s]) = "totp"
    /\ LET c == check_session_timeout(sess[s], now) IN
       IF c.rerun THEN Expired(s, c)
       ELSE /\ sess' = [sess EXCEPT ![s] = cancel_session(c.sess)]
            /\ msg' = [msg EXCEPT ![s] = NoMsg]
            /\ view' = [view EXCEPT ![s] = NoView]
            /\ UNCHANGED <<calc, storage, now, users, audit, pc, loc, streak>>

\* ------------------------------------------------------ the dashboard
\* require_auth lets the run go on
require_auth(ss) == ss.authenticated /\ ss.totp_verified

\* dashboard tabs that read the global audit log whatever the role
DashboardReads_all(ss, t, tie) ==
    [transactions_of |-> ss.user_email,
     logs |-> "all",
     logs_of |-> None,
     at |-> t,
     rows |-> get_audit_logs(None, TRUE, tie)]

\* what the tabs of the dashboard read for session state ss at time t, the
\* database ordering rows of the same second as in tie
DashboardReads(ss, t, tie) ==
    [transactions_of |-> ss.user_email,
     logs |-> IF ss.user_role = "admin" THEN "all" ELSE "own",
     logs_of |-> IF ss.user_role = "admin" THEN None ELSE ss.user_email,
     at |-> t,
     rows |-> IF ss.user_role = "admin"
              THEN get_audit_logs(None, TRUE, tie)
              ELSE get_audit_logs(ss.user_email, FALSE, tie)]

\* a run on the dashboard with no button pressed: every tab is rendered
Dashboard(s) ==
    /\ StartRun(s, "view", None, None, NoCode)
    /\ Page(sess[s]) = "dashboard"
    /\ LET c == check_session_timeout(sess[s], now) IN
       IF c.rerun THEN Expired(s, c)
       ELSE /\ require_auth(c.sess)
            /\ sess' = [sess EXCEPT ![s] = c.sess]
            /\ \E tie \in TieOrders :
                   view' = [view EXCEPT ![s] = DashboardReads(c.sess, now, tie)]
            /\ msg' = [msg EXCEPT ![s] = NoMsg]
            /\ UNCHANGED <<calc, storage, now, users, audit, pc, loc, streak>>

\* logout that leaves the TOTP secret and the role in the session
clear_session_keeps_secret(ss) ==
    [ss EXCEPT !.authenticated = FALSE,
               !.totp_verified = FALSE,
               !.user_email = None]

\* the session state logout_button leaves
clear_session(ss) ==
    [ss EXCEPT !.authenticated = FALSE,
               !.totp_verified = FALSE,
               !.user_email = None,
               !.totp_secret = None,
               !.user_role = "user"]

\* a run on the dashboard with the Logout button (auth.logout_button)
Logout(s) ==
    /\ StartRun(s, "logout", None, None, NoCode)
    /\ Page(sess[s]) = "dashboard"
    /\ LET c == check_session_timeout(sess[s], now) IN
       IF c.rerun THEN Expired(s, c)
       ELSE LET r == log_audit(c.sess.user_email, "User logged out", 0, now) IN
            /\ require_auth(c.sess)
            /\ audit' = r.audit
            \* the session state is cleared after log_audit has returned
            /\ sess' = [sess EXCEPT ![s] =
                          IF r.raised THEN c.sess
                          ELSE clear_session(c.sess)]
            /\ msg' = [msg EXCEPT ![s] = shown(r, Msg("Logged out successfully", 0))]
            /\ view' = [view EXCEPT ![s] = NoView]
            /\ UNCHANGED <<calc, storage, now, users, pc, loc, streak>>

\* ------------------------------------------------------- specifications
\* the steps of session s
Step(s) ==
    \/ \E in \in LoginInputs : LoginSubmit(s, in[1], in[2])
    \/ Unlock(s)
    \/ GetUser(s)
    \/ UpdateFailed(s)
    \/ ResetAndBind(s)
    \/ \E totp_code \in TotpInputs(now) : TotpSubmit(s, totp_code)
    \/ TotpCancel(s)
    \/ Dashboard(s)
    \/ Logout(s)

\* the sessions' scripts run concurrently
Next == Advance \/ \E s \in Sessions : Step(s)

Spec == Init /\ [][Next]_vars

\* the audit_logs INSERT starts to fail (disk full, database locked)
StorageFails ==
    /\ storage = "ok"
    /\ storage' = "failing"
    /\ UNCHANGED <<now, users, audit, sess, pc, loc, msg, view, runs, req, last, streak,
                   calc>>

\* the application on storage whose audit INSERT may start to fail
NextFault == Next \/ StorageFails

SpecFault == Init /\ [][NextFault]_vars

\* one script run at a time: a handler is finished before the next starts
Serial(s) == \A o \in Sessions \ {s} : pc[o] = "idle"

NextSeq == Advance \/ \E s \in Sessions : Serial(s) /\ Step(s)

SpecSeq == Init /\ [][NextSeq]_vars

\* ======================================================= the claims
Max(S) == CHOOSE x \in S : \A y \in S : y <= x

\* isLocked(e) at time t: a non-null lockout-expiry that is still in the future
IsLocked(e, t) ==
    /\ users[e].lockout_until # Null
    /\ t < users[e].lockout_until[1]

LockedText ==
    "Account locked due to multiple failed login attempts. Please try again in 15 minutes."

\* the audit row log_audit(email, action) adds at this step
Appended(email, action, attempt) ==
    audit' = Append(audit, [id |-> Len(audit) + 1, user_email |-> email,
                            action |-> action, attempt |-> attempt,
                            created_at |-> now])

LastRow == audit[Len(audit)]

\* the audit rows of wrong-password logins for e, and when the last one was
FailureRows(e) ==
    {i \in 1..Len(audit) : /\ audit[i].user_email = e
                           /\ audit[i].action = "Login failed - incorrect password"}
LastFailureAt(e) ==
    IF FailureRows(e) = {} THEN 0 ELSE audit[Max(FailureRows(e))].created_at

\* this step starts a run of session s that submits the login form for e
LoginSubmitted(s, e) ==
    /\ runs' = runs + 1
    /\ last' = s
    /\ req'[s].op = "login"
    /\ req'[s].email = e

\* this step is a step of session s that ends its handler
HandlerEnds(s) == pc[s] # "idle" /\ pc'[s] = "idle"

\* the lockout state of e is clear
Cleared(e) ==
    /\ users[e].failed_login_attempts = 0
    /\ users[e].lockout_until = Null

\* ---------------------------------------------------------------- C1
C1_Step ==
    \A e \in Registered :
        LET expiry == LastFailureAt(e) + LOCKOUT_SECONDS IN
        \* locked from the fifth failure on, at every instant before expiry
        /\ (streak'[e] = LOCKOUT_THRESHOLD) =>
               \A t \in TimePoints :
                   (now' <= t /\ t < LastFailureAt(e)' + LOCKOUT_SECONDS)
                       => IsLocked(e, t)'
        \* nothing ends the lockout before expiry
        /\ (streak[e] = LOCKOUT_THRESHOLD /\ streak'[e] # LOCKOUT_THRESHOLD) =>
               now >= expiry
        /\ \A s \in Sessions :
            \* a check before expiry answers "locked": the login is rejected
            /\ (streak[e] = LOCKOUT_THRESHOLD /\ LoginSubmitted(s, e) /\ now < expiry) =>
                   /\ pc'[s] = "idle"
                   /\ msg'[s].text = LockedText
            \* the first check at or after expiry answers "not locked" ...
            /\ (streak[e] = LOCKOUT_THRESHOLD /\ LoginSubmitted(s, e) /\ now >= expiry) =>
                   pc'[s] = "unlock"
            \* ... and clears the lockout state
            /\ (pc[s] = "unlock" /\ loc[s].email = e /\ pc'[s] # "unlock") =>
                   Cleared(e)' /\ pc'[s] = "get_user"

\* C1: after 5 consecutive failed password logins of an account (streak = 5)
\* isLocked is true at once and at every check before the 15 minutes since
\* the fifth failure are over; the first check at or after that instant
\* answers false and clears the lockout state (counter 0, expiry NULL).
C1_LockoutAfterFiveFailures == [][C1_Step]_vars

\* the fifth failure locked alice, the lock ran out, and a check cleared it
C1_Witness ==
    \E s \in Sessions :
        /\ pc[s] = "get_user"
        /\ loc[s].email = "alice"
        /\ Cleared("alice")
        /\ \E i \in FailureRows("alice") :
               /\ audit[i].attempt = LOCKOUT_THRESHOLD
               /\ now >= audit[i].created_at + LOCKOUT_SECONDS

\* ---------------------------------------------------------------- C2
C2_Step ==
    \A e \in Registered, s \in Sessions :
        (LoginSubmitted(s, e) /\ IsLocked(e, now)) =>
            /\ pc'[s] = "idle"
            /\ msg'[s].text = LockedText
            /\ sess' = sess
            /\ Page(sess'[s]) = "auth"
            /\ Appended(e, "Login attempt - account locked", 0)
            /\ users' = users

\* C2: a login submitted for an account that is locked is rejected, whatever
\* the password: the session stays Anonymous, one row "Login attempt -
\* account locked" is appended, and the users table is left as it was.
C2_LockedLoginRejected == [][C2_Step]_vars

\* alice is locked and her own password has just been turned away
C2_Witness ==
    \E s \in Sessions :
        /\ last = s
        /\ pc[s] = "idle"
        /\ req[s].op = "login"
        /\ req[s].email = "alice"
        /\ verify_password(req[s].password, users["alice"].password_hash)
        /\ IsLocked("alice", now)
        /\ msg[s].text = LockedText
        /\ Len(audit) > 0
        /\ LastRow.action = "Login attempt - account locked"
        /\ LastRow.user_email = "alice"
        /\ Page(sess[s]) = "auth"

\* ---------------------------------------------------------------- C3
\* session s has made one wrong-password login for e, and it was counted
\* as a failure (not turned away as locked)
FailedAttemptDone(s, e) ==
    /\ pc[s] = "idle"
    /\ req[s].op = "login"
    /\ req[s].email = e
    /\ ~verify_password(req[s].password, users[e].password_hash)
    /\ msg[s].text \in {"Invalid credentials. N attempts remaining.",
                        "Account locked for 15 minutes due to too many failed attempts."}

\* C3: when two sessions have each made one failed password login for the
\* same account, in whatever order their reads and writes ran, the counter
\* is the initial count plus 2 (streak counts every failure).
C3_BothFailuresCounted ==
    \A e \in Registered :
        (runs = 2 /\ \A s \in Sessions : FailedAttemptDone(s, e)) =>
            users[e].failed_login_attempts = streak[e]

\* ---------------------------------------------------------------- C4
\* C4: in every state of every user row, lockout_until is NULL whenever
\* failed_login_attempts is below the threshold 5.
C4_ExpiryNullBelowThreshold ==
    \A e \in Registered :
        users[e].failed_login_attempts < LOCKOUT_THRESHOLD =>
            users[e].lockout_until = Null

\* ---------------------------------------------------------------- C5
Authenticated(ss) == ss.authenticated /\ ss.totp_verified

\* C5: at the step that makes a session Authenticated for user u (the TOTP
\* code verified after the password), u's counter is 0 and u's
\* lockout_until is NULL.
C5_ClearedAtFullLogin ==
    [][\A s \in Sessions :
          (~Authenticated(sess[s]) /\ Authenticated(sess'[s])) =>
              \A e \in Registered : sess'[s].user_email = e => Cleared(e)']_vars

\* ---------------------------------------------------------------- C6
\* session s is handling a login for the registered account e with a
\* wrong password
WrongPasswordLogin(s, e) ==
    /\ req[s].op = "login"
    /\ req[s].email = e
    /\ ~verify_password(req[s].password, users[e].password_hash)

C6_Step ==
    \A e \in Registered, s \in Sessions :
        \* the account is not locked: the handler goes on to the password
        /\ (LoginSubmitted(s, e) /\ ~IsLocked(e, now)) => pc'[s] # "idle"
        \* and with a wrong password it ends like this
        /\ (HandlerEnds(s) /\ WrongPasswordLogin(s, e)) =>
            LET count == users[e].failed_login_attempts + 1 IN
            /\ users'[e].failed_login_attempts = count
            /\ users'[e].lockout_until =
                   IF count >= LOCKOUT_THRESHOLD THEN Some(now + LOCKOUT_SECONDS)
                                                 ELSE users[e].lockout_until
            /\ \A o \in Registered \ {e} : users'[o] = users[o]
            /\ Appended(e, "Login failed - incorrect password", count)
            /\ sess' = sess
            /\ Page(sess'[s]) = "auth"

\* C6: a login for a registered account that is not locked, with a wrong
\* password, adds exactly 1 to the account's failed_login_attempts, sets
\* lockout_until = now + 15 minutes when the new count reaches 5, appends
\* one "Login failed - incorrect password" row carrying the new count and
\* leaves the session Anonymous.
C6_WrongPasswordCounted == [][C6_Step]_vars

\* the wrong password that made the count 5 and locked alice
C6_Witness ==
    \E s \in Sessions :
        /\ last = s
        /\ pc[s] = "idle"
        /\ WrongPasswordLogin(s, "alice")
        /\ users["alice"].failed_login_attempts = LOCKOUT_THRESHOLD
        /\ users["alice"].lockout_until = Some(now + LOCKOUT_SECONDS)
        /\ Len(audit) > 0
        /\ LastRow.action = "Login failed - incorrect password"
        /\ LastRow.attempt = LOCKOUT_THRESHOLD
        /\ LastRow.created_at = now
        /\ Page(sess[s]) = "auth"

\* ---------------------------------------------------------------- C7
\* session s has made a login for an email that is not registered
UnknownEmailDone(s) ==
    /\ pc[s] = "idle"
    /\ req[s].op = "login"
    /\ req[s].email \notin Registered
    /\ req[s].email # ""

\* the category of an audit action: the part before " - "
AuditCategory(action) ==
    IF action \in {"Login failed - user not found",
                   "Login failed - incorrect password"}
    THEN "Login failed"
    ELSE action

\* the latest audit row written for an email
LastRowOf(email) ==
    audit[Max({i \in 1..Len(audit) : audit[i].user_email = email})]

\* C7: a login with an unknown email and a login with a registered email
\* and a wrong password show the same rejection message and write audit
\* rows of the same category, whatever the failed-attempt count of the
\* registered account.
C7_SameRejection ==
    \A s \in Sessions, t \in Sessions, e \in Registered :
        (runs = 2 /\ UnknownEmailDone(s) /\ FailedAttemptDone(t, e)) =>
            /\ msg[s] = msg[t]
            /\ AuditCategory(LastRowOf(req[s].email).action)
                   = AuditCategory(LastRowOf(e).action)

\* ---------------------------------------------------------------- C8
\* session s is handling a login for the registered account e with the
\* right password
RightPasswordLogin(s, e) ==
    /\ req[s].op = "login"
    /\ req[s].email = e
    /\ verify_password(req[s].password, users[e].password_hash)

\* the password is verified, the second factor is pending
PasswordVerified(ss) == ss.authenticated /\ ~ss.totp_verified

C8_Step ==
    \A e \in Registered, s \in Sessions :
        \* the account is not locked: the handler goes on to the password
        /\ (LoginSubmitted(s, e) /\ ~IsLocked(e, now)
                /\ verify_password(req'[s].password, users[e].password_hash)) =>
               pc'[s] # "idle" /\ Page(sess[s]) = "auth"
        \* and with the right password it ends like this
        /\ (HandlerEnds(s) /\ RightPasswordLogin(s, e)) =>
            /\ Cleared(e)'
            /\ \A o \in Registered \ {e} : users'[o] = users[o]
            /\ Page(sess[s]) = "auth"
            /\ PasswordVerified(sess'[s])
            /\ Page(sess'[s]) = "totp"
            /\ sess'[s].user_email = e
            /\ sess'[s].user_role = users[e].role
            /\ sess'[s].totp_secret = users[e].totp_secret
            /\ \A o \in Sessions \ {s} : sess'[o] = sess[o]
            /\ Appended(e, "Password verified - awaiting 2FA", 0)

\* C8: a login for a registered account that is not locked, with the right
\* password, clears the lockout state (counter 0, lockout_until NULL),
\* takes the session from Anonymous to PasswordVerified and not further,
\* binds the stored email, role and TOTP secret of that user to the session
\* and appends one "Password verified - awaiting 2FA" row.
C8_PasswordVerifiedBinds == [][C8_Step]_vars

\* alice has given the right password after wrong ones were on record: the
\* counter is back at 0 and her session awaits the code
C8_Witness ==
    \E s \in Sessions :
        /\ last = s
        /\ pc[s] = "idle"
        /\ RightPasswordLogin(s, "alice")
        /\ FailureRows("alice") # {}
        /\ Cleared("alice")
        /\ PasswordVerified(sess[s])
        /\ sess[s].user_email = "alice"
        /\ sess[s].user_role = users["alice"].role
        /\ sess[s].totp_secret = users["alice"].totp_secret
        /\ Len(audit) > 0
        /\ LastRow.action = "Password verified - awaiting 2FA"
        /\ LastRow.user_email = "alice"

\* ---------------------------------------------------------------- C9
Anonymous(ss) == ~ss.authenticated /\ ~ss.totp_verified

\* the number of the three states session state ss is in
StatesOf(ss) ==
    Cardinality({k \in 1..3 : \/ k = 1 /\ Anonymous(ss)
                              \/ k = 2 /\ PasswordVerified(ss)
                              \/ k = 3 /\ Authenticated(ss)})

\* this step is a run of session s
RunOf(s) == runs' = runs + 1 /\ last' = s

C9_State ==
    \A s \in Sessions :
        /\ StatesOf(sess[s]) = 1
        \* what the dashboard has read, it read for the session's identity
        /\ view[s] # NoView =>
              /\ Authenticated(sess[s])
              /\ sess[s].user_email \in Registered
              /\ view[s].transactions_of = sess[s].user_email
              /\ view[s].logs = "own" => view[s].logs_of = sess[s].user_email

C9_Step ==
    \A s \in Sessions :
        \* the dashboard reads only in a run that found the session
        \* Authenticated and leaves it so
        /\ (RunOf(s) /\ view'[s] # NoView) =>
              Authenticated(sess[s]) /\ Authenticated(sess'[s])
        \* a run of an Anonymous or PasswordVerified session reads nothing
        /\ (RunOf(s) /\ ~Authenticated(sess[s])) => view'[s] = NoView

\* C9: in every state each session is in exactly one of Anonymous,
\* PasswordVerified and Authenticated, and the dashboard reads that use the
\* session's identity and role (transactions, audit logs) happen only in a
\* run of an Authenticated session.
C9_OneStateTrustedWhenAuthenticated == []C9_State /\ [][C9_Step]_vars

\* alice is Authenticated and the dashboard has read her transactions and
\* her own audit rows, while the other session is not Authenticated
C9_Witness ==
    \E s \in Sessions :
        /\ Authenticated(sess[s])
        /\ sess[s].user_email = "alice"
        /\ view[s].transactions_of = "alice"
        /\ view[s].logs = "own"
        /\ view[s].logs_of = "alice"
        /\ \A o \in Sessions \ {s} : Anonymous(sess[o]) /\ view[o] = NoView

\* --------------------------------------------------------------- C10
C10_Step ==
    \A s \in Sessions :
        (RunOf(s) /\ view'[s].logs = "all") =>
            \* Authenticated when the run starts, and not expired
            /\ Authenticated(sess[s])
            /\ now - sess[s].last_activity <= SESSION_IDLE_SECONDS
            \* the role is admin, in the session and in the user's row
            /\ sess[s].user_role = "admin"
            /\ sess[s].user_email \in Registered
            /\ users[sess[s].user_email].role = "admin"
            \* and the run leaves the session that way
            /\ Authenticated(sess'[s])
            /\ sess'[s].user_role = "admin"
            /\ sess'[s].last_activity = now
            /\ view'[s].at = now

\* C10: get_audit_logs(admin=True), the read of the global audit log, is
\* executed only in a run whose session is Authenticated (password and TOTP
\* verified, not idle for more than 15 minutes) with the role admin, as
\* found in the session state during that run.
C10_GlobalAuditOnlyForAdmin == [][C10_Step]_vars

\* root, the admin, is Authenticated and the dashboard has read the global
\* audit log
C10_Witness ==
    \E s \in Sessions :
        /\ last = s
        /\ Authenticated(sess[s])
        /\ sess[s].user_email = "root"
        /\ sess[s].user_role = "admin"
        /\ view[s].logs = "all"
        /\ view[s].at = now

\* --------------------------------------------------------------- C11
\* session state ss is PasswordVerified and at time t not idle for more
\* than the 15 minutes
Pending(ss, t) ==
    /\ PasswordVerified(ss)
    /\ t - ss.last_activity <= SESSION_IDLE_SECONDS

\* this step is a run of session s that submits a code on the 2FA page
CodeSubmitted(s) == RunOf(s) /\ req'[s].op = "totp"

\* the fields the password step bound to the session are left as they were
BoundKept(s) ==
    /\ sess'[s].user_email = sess[s].user_email
    /\ sess'[s].user_role = sess[s].user_role
    /\ sess'[s].totp_secret = sess[s].totp_secret

C11_Step ==
    \A s \in Sessions :
        (/\ CodeSubmitted(s)
         /\ Pending(sess[s], now)
         /\ verify_totp(sess[s].totp_secret, req'[s].code, now)) =>
            /\ Authenticated(sess'[s])
            /\ sess'[s].last_activity = now
            /\ BoundKept(s)
            /\ Appended(sess[s].user_email, "2FA verified - login successful", 0)
            /\ users' = users
            /\ \A o \in Sessions \ {s} : sess'[o] = sess[o]

\* C11: in PasswordVerified, a submitted code that verifies against the
\* TOTP secret bound to the session makes the session Authenticated, sets
\* last_activity to the current time and appends one "2FA verified - login
\* successful" row.
C11_ValidCodeAuthenticates == [][C11_Step]_vars

\* alice gave her password at 0 and a valid code later: Authenticated, with
\* last_activity at the time of the code
C11_Witness ==
    \E s \in Sessions :
        /\ last = s
        /\ req[s].op = "totp"
        /\ now > 0
        /\ Authenticated(sess[s])
        /\ sess[s].user_email = "alice"
        /\ sess[s].last_activity = now
        /\ Len(audit) > 0
        /\ LastRow.action = "2FA verified - login successful"
        /\ LastRow.user_email = "alice"
        /\ LastRow.created_at = now

\* --------------------------------------------------------------- C12
\* exactly 6 digits
WellFormed(code) == code.len = TOTP_DIGITS /\ code.digits

\* the audit rows "2FA verification failed" of an email
TotpFailedRows(email) ==
    {i \in 1..Len(audit) : /\ audit[i].user_email = email
                           /\ audit[i].action = "2FA verification failed"}

C12_Step ==
    \A s \in Sessions :
        (/\ CodeSubmitted(s)
         /\ Pending(sess[s], now)
         /\ WellFormed(req'[s].code)
         /\ ~verify_totp(sess[s].totp_secret, req'[s].code, now)) =>
            /\ PasswordVerified(sess'[s])
            /\ BoundKept(s)
            /\ Appended(sess[s].user_email, "2FA verification failed", 0)
            /\ users' = users
            /\ \A o \in Sessions \ {s} : sess'[o] = sess[o]

\* C12: in PasswordVerified, a submitted code of 6 digits that does not
\* verify leaves the session PasswordVerified, appends one "2FA verification
\* failed" row and leaves the users table (failed_login_attempts,
\* lockout_until) as it was, however often it is repeated.
C12_InvalidCodeStays == [][C12_Step]_vars

\* alice's pending session has had two invalid codes: two rows, the session
\* still PasswordVerified, her counter still 0
C12_Witness ==
    \E s \in Sessions :
        /\ last = s
        /\ req[s].op = "totp"
        /\ PasswordVerified(sess[s])
        /\ sess[s].user_email = "alice"
        /\ Cardinality(TotpFailedRows("alice")) = 2
        /\ Cleared("alice")

\* --------------------------------------------------------------- C13
C13_Step ==
    \A s \in Sessions :
        (/\ CodeSubmitted(s)
         /\ Pending(sess[s], now)
         /\ ~WellFormed(req'[s].code)) =>
            /\ PasswordVerified(sess'[s])
            /\ BoundKept(s)
            /\ msg'[s].text = "Please enter a 6-digit code"
            /\ audit' = audit
            /\ users' = users

\* C13: in PasswordVerified, a submitted code that is not exactly 6 digits
\* (empty, too short, or 6 characters that are not all digits) is rejected
\* as malformed: the session stays PasswordVerified, nothing is raised and
\* the audit log is left unchanged.
C13_MalformedCodeRejected == [][C13_Step]_vars

\* --------------------------------------------------------------- C14
\* the idle time of session state ss at time t
IdleTime(ss, t) == t - ss.last_activity

C14_Step ==
    \A s \in Sessions :
        \* one second over the threshold: Expired, then Anonymous
        /\ (/\ RunOf(s)
            /\ Authenticated(sess[s])
            /\ IdleTime(sess[s], now) = SESSION_IDLE_SECONDS + 1) =>
               /\ Anonymous(sess'[s])
               /\ msg'[s].text = "Session expired due to inactivity. Please login again."
               /\ view'[s] = NoView
        \* one second under it: refreshed, still Authenticated
        /\ (/\ RunOf(s)
            /\ Authenticated(sess[s])
            /\ req'[s].op # "logout"
            /\ IdleTime(sess[s], now) = SESSION_IDLE_SECONDS - 1) =>
               /\ Authenticated(sess'[s])
               /\ sess'[s].last_activity = now
               /\ BoundKept(s)

\* C14: a request of an Authenticated session that arrives 901 seconds
\* after last_activity makes the session Expired and then Anonymous; one
\* that arrives 899 seconds after it sets last_activity to now and leaves
\* the session Authenticated.
C14_IdleThreshold == [][C14_Step]_vars

\* root was Authenticated at 0 and came back 901 seconds later
C14_Witness ==
    \E s \in Sessions :
        /\ last = s
        /\ req[s].op \in {"view", "logout"}
        /\ now = SESSION_IDLE_SECONDS + 1
        /\ sess[s].last_activity = 0
        /\ Anonymous(sess[s])
        /\ msg[s].text = "Session expired due to inactivity. Please login again."
        /\ \E i \in 1..Len(audit) :
               /\ audit[i].action = "2FA verified - login successful"
               /\ audit[i].user_email = "root"
               /\ audit[i].created_at = 0

\* --------------------------------------------------------------- C15
\* this step takes session s from Authenticated to Anonymous by the idle
\* timeout
TimedOut(s) ==
    /\ RunOf(s)
    /\ Authenticated(sess[s])
    /\ IdleTime(sess[s], now) > SESSION_IDLE_SECONDS
    /\ Anonymous(sess'[s])

\* C15: whenever the idle timeout takes an Authenticated session to
\* Anonymous, one audit row for the user of that session is appended.
C15_TimeoutAudited ==
    [][\A s \in Sessions :
          TimedOut(s) =>
              /\ Len(audit') = Len(audit) + 1
              /\ SubSeq(audit', 1, Len(audit)) = audit
              /\ audit'[Len(audit')].user_email = sess[s].user_email]_vars

\* --------------------------------------------------------------- C16
\* this step is a run of session s with the Logout button pressed, the
\* session Authenticated and not idle for more than the 15 minutes
LogoutPressed(s) ==
    /\ RunOf(s)
    /\ req'[s].op = "logout"
    /\ Authenticated(sess[s])
    /\ IdleTime(sess[s], now) <= SESSION_IDLE_SECONDS

C16_Step ==
    \A s \in Sessions :
        LogoutPressed(s) =>
            /\ Appended(sess[s].user_email, "User logged out", 0)
            /\ sess[s].user_email \in Registered
            /\ Anonymous(sess'[s])
            /\ sess'[s].user_email = None
            /\ sess'[s].totp_secret = None
            /\ sess'[s].user_role = "user"
            /\ view'[s] = NoView
            /\ users' = users
            /\ \A o \in Sessions \ {s} : sess'[o] = sess[o]

\* C16: logout from an Authenticated session appends one "User logged out"
\* row for the user bound to the session, clears every session field
\* (user_email and totp_secret None, authenticated and totp_verified False,
\* user_role back to 'user') and leaves the session Anonymous.
C16_LogoutClears == [][C16_Step]_vars

\* root, the admin, has logged out: the row is his, the session holds
\* nothing of him
C16_Witness ==
    \E s \in Sessions :
        /\ last = s
        /\ req[s].op = "logout"
        /\ Anonymous(sess[s])
        /\ sess[s].user_email = None
        /\ sess[s].totp_secret = None
        /\ sess[s].user_role = "user"
        /\ Len(audit) > 0
        /\ LastRow.action = "User logged out"
        /\ LastRow.user_email = "root"

\* --------------------------------------------------------------- C17
\* this step is a run of session s with the Cancel button of the 2FA page
\* pressed, the session PasswordVerified and not idle for too long
CancelPressed(s) ==
    /\ RunOf(s)
    /\ req'[s].op = "cancel"
    /\ Pending(sess[s], now)

C17_Step ==
    \A s \in Sessions :
        CancelPressed(s) =>
            /\ Anonymous(sess'[s])
            /\ sess'[s].user_email = None
            /\ sess'[s].totp_secret = None
            /\ view'[s] = NoView
            /\ audit' = audit
            /\ users' = users
            /\ \A o \in Sessions \ {s} : sess'[o] = sess[o]

\* C17: Cancel in PasswordVerified discards the pending session (user_email
\* and totp_secret are cleared) and takes the session straight to
\* Anonymous, never through Authenticated.
C17_CancelDiscards == [][C17_Step]_vars

\* alice's pending session was cancelled: Anonymous, nothing bound, and no
\* "2FA verified" row was ever written
C17_Witness ==
    \E s \in Sessions :
        /\ last = s
        /\ req[s].op = "cancel"
        /\ Anonymous(sess[s])
        /\ sess[s].user_email = None
        /\ sess[s].totp_secret = None
        /\ Len(audit) > 0
        /\ LastRow.action = "Password verified - awaiting 2FA"
        /\ LastRow.user_email = "alice"

\* --------------------------------------------------------------- C18

C18_Step ==
    storage = "failing" =>
        \* the INSERT fails: no row is written
        /\ audit' = audit
        /\ \A s \in Sessions :
            \* nothing is raised into the handler
            /\ msg'[s].text # "Traceback"
            \* a login for a locked account is turned away as before
            /\ \A e \in Registered :
                (LoginSubmitted(s, e) /\ IsLocked(e, now)) =>
                    /\ pc'[s] = "idle"
                    /\ msg'[s].text = LockedText
                    /\ sess' = sess
                    /\ users' = users
            \* a wrong password is counted and the session stays Anonymous
            /\ \A e \in Registered :
                (HandlerEnds(s) /\ WrongPasswordLogin(s, e)) =>
                    /\ users'[e].failed_login_attempts >= 1
                    /\ users'[e].failed_login_attempts = LOCKOUT_THRESHOLD
                           => users'[e].lockout_until # Null
                    /\ msg'[s] \in {bad_password_message(n) : n \in 1..LOCKOUT_THRESHOLD}
                    /\ sess' = sess
            \* the right password: lockout state reset, session bound
            /\ \A e \in Registered :
                (HandlerEnds(s) /\ RightPasswordLogin(s, e)) =>
                    /\ Cleared(e)'
                    /\ PasswordVerified(sess'[s])
                    /\ sess'[s].user_email = e
                    /\ sess'[s].user_role = users[e].role
                    /\ sess'[s].totp_secret = users[e].totp_secret
            \* the second factor
            /\ (CodeSubmitted(s) /\ Pending(sess[s], now) /\ WellFormed(req'[s].code)) =>
                   /\ BoundKept(s)
                   /\ users' = users
                   /\ IF verify_totp(sess[s].totp_secret, req'[s].code, now)
                      THEN Authenticated(sess'[s])
                      ELSE PasswordVerified(sess'[s])
            \* logout
            /\ LogoutPressed(s) =>
                   /\ Anonymous(sess'[s])
                   /\ sess'[s].user_email = None
                   /\ sess'[s].totp_secret = None
                   /\ sess'[s].user_role = "user"
                   /\ users' = users

IsPrefix(log, log2) ==
    /\ Len(log) <= Len(log2)
    /\ \A i \in 1..Len(log) : log2[i] = log[i]

\* C19: the audit log is append-only: every step leaves each row that is
\* in the log where it was, with its user_email, action and created_at, so
\* the log before a step is a prefix of the log after it.
C19_AuditAppendOnly == [][IsPrefix(audit, audit')]_vars

\* three runs have each added a row behind the four that were there
C19_Witness ==
    /\ Len(audit) = LOCKOUT_THRESHOLD + 2
    /\ \A i \in 1..(LOCKOUT_THRESHOLD - 1) :
           audit[i] = FailedLoginRows("alice", LOCKOUT_THRESHOLD - 1)[i]
    /\ \A i \in 1..Len(audit) : audit[i].id = i
    /\ audit[Len(audit)].created_at > 0

\* --------------------------------------------------------------- C20
\* the ids of the audit rows of an actor, in append order
RowsOfActor(actor) ==
    SelectSeq([i \in 1..Len(audit) |-> i], LAMBDA i : audit[i].user_email = actor)

\* a sequence back to front
Reverse(seq) == [i \in 1..Len(seq) |-> seq[Len(seq) + 1 - i]]

\* C20: what the dashboard reads with get_audit_logs(user_email) are the
\* actor's most recent rows, up to the limit of 50, newest first: the
\* reverse of the order they were appended in, also for rows appended
\* within the same second.
C20_NewestFirstByActor ==
    [][\A s \in Sessions :
          (RunOf(s) /\ view'[s].logs = "own") =>
              view'[s].rows =
                  Limit(Reverse(RowsOfActor(view'[s].logs_of)), AUDIT_LIMIT_USER)]_vars

\* --------------------------------------------------------------- C26
\* C26: while the lockout_until of an account is in the future no step
\* resets its counter, nulls its lockout_until or takes a session to
\* PasswordVerified for it, however the login attempts of the sessions
\* interleave.
C26_LockHoldsUntilExpiry ==
    [][\A e \in Registered :
          IsLocked(e, now) =>
              /\ users'[e].failed_login_attempts >= users[e].failed_login_attempts
              /\ users'[e].lockout_until # Null
              /\ \A s \in Sessions :
                     ~(/\ ~sess[s].authenticated
                       /\ sess'[s].authenticated
                       /\ sess'[s].user_email = e)]_vars

\* --------------------------------------------------------------- C27
\* C27: in every state the failed_login_attempts of every user is between
\* 0 and the threshold 5.
C27_CounterWithinThreshold ==
    \A e \in Registered :
        /\ users[e].failed_login_attempts >= 0
        /\ users[e].failed_login_attempts <= LOCKOUT_THRESHOLD

\* --------------------------------------------------------------- C28
\* token is a well-formed code of this secret (of whatever time step)
CodeOf(secret, token) ==
    /\ WellFormed(token)
    /\ token.otp # << >>
    /\ token.otp[1] = secret

C28_State ==
    \A s \in Sessions :
        sess[s].totp_verified =>
            /\ sess[s].authenticated
            /\ sess[s].user_email # None
            /\ sess[s].user_email \in DOMAIN users

C28_Step ==
    \A s \in Sessions :
        \* authenticated is set by a login whose password verified for
        \* the email it binds, and that is not yet Authenticated
        /\ (~sess[s].authenticated /\ sess'[s].authenticated) =>
              /\ Anonymous(sess[s])
              /\ PasswordVerified(sess'[s])
              /\ HandlerEnds(s)
              /\ req[s].op = "login"
              /\ req[s].email = sess'[s].user_email
              /\ sess'[s].user_email \in DOMAIN users
              /\ verify_password(req[s].password,
                                 users[sess'[s].user_email].password_hash)
        \* Authenticated is reached from PasswordVerified, by a code of the
        \* secret of the user the password was verified for
        /\ (~Authenticated(sess[s]) /\ Authenticated(sess'[s])) =>
              /\ PasswordVerified(sess[s])
              /\ CodeSubmitted(s)
              /\ sess[s].user_email \in DOMAIN users
              /\ CodeOf(users[sess[s].user_email].totp_secret, req'[s].code)
        \* the identity is not exchanged on the way
        /\ (sess[s].authenticated /\ sess'[s].authenticated) =>
              sess'[s].user_email = sess[s].user_email

\* C28: a session becomes Authenticated only from PasswordVerified, which it
\* entered from Anonymous by a login whose password verified for the email
\* bound to it, and by a TOTP code of that same user's secret; and in
\* every state totp_verified implies authenticated and a bound user_email.
C28_AuthenticatedOnlyAfterBothFactors == []C28_State /\ [][C28_Step]_vars

\* alice is Authenticated on the two rows of her login, in that order
C28_Witness ==
    \E s \in Sessions :
        /\ Authenticated(sess[s])
        /\ sess[s].user_email = "alice"
        /\ \E i \in 1..Len(audit), j \in 1..Len(audit) :
               /\ i < j
               /\ audit[i].user_email = "alice"
               /\ audit[i].action = "Password verified - awaiting 2FA"
               /\ audit[j].user_email = "alice"
               /\ audit[j].action = "2FA verified - login successful"

\* --------------------------------------------------------------- C29
\* C29: a session that is Anonymous (again, after cancel, logout or the
\* idle timeout, or from the start) holds nothing of a login: user_email
\* and totp_secret are None and user_role is the default 'user'.
C29_AnonymousHoldsNothing ==
    \A s \in Sessions :
        Anonymous(sess[s]) =>
            /\ sess[s].user_email = None
            /\ sess[s].totp_secret = None
            /\ sess[s].user_role = "user"

\* --------------------------------------------------------------- C30
C30_Step ==
    \A s \in Sessions :
        (/\ CodeSubmitted(s)
         /\ PasswordVerified(sess[s])
         /\ IdleTime(sess[s], now) > SESSION_IDLE_SECONDS) =>
            \* whatever the code, also a valid one
            /\ ~Authenticated(sess'[s])
            /\ Anonymous(sess'[s])
            /\ Page(sess'[s]) = "auth"
            /\ msg'[s].text = "Session expired due to inactivity. Please login again."
            /\ audit' = audit
            /\ users' = users

\* C30: the idle timeout applies to a PasswordVerified session too: a code,
\* valid or not, submitted more than 15 minutes after the session's
\* last_activity does not make the session Authenticated; the session is
\* made Anonymous and the login page, with the password, comes next.
C30_PendingSessionExpires == [][C30_Step]_vars

\* alice gave her password at 0 and the code that is valid at 901 s: the
\* session is Anonymous again
C30_Witness ==
    \E s \in Sessions :
        /\ last = s
        /\ req[s].op = "totp"
        /\ now = SESSION_IDLE_SECONDS + 1
        /\ sess[s].last_activity = 0
        /\ sess[s].totp_secret = "KA"
        /\ verify_totp(sess[s].totp_secret, req[s].code, now)
        /\ Anonymous(sess[s])
        /\ Page(sess[s]) = "auth"
        /\ Len(audit) > 0
        /\ LastRow.action = "Password verified - awaiting 2FA"


\* ------------------------------------------------- security.py, called alone

\* the variables of the application, which a call of security.py leaves alone
appvars == <<now, users, audit, sess, pc, loc, msg, view, runs, req, last, streak,
             storage>>

\* range of the clock readings tried, in seconds
MaxClock == 95

\* clock readings from the second time step on, so that every counter
\* timecode(t) - 1 .. timecode(t) + 1 that pyotp looks at exists
ClockTimes == TOTP_INTERVAL..(TOTP_INTERVAL + MaxClock)

\* verify_totp(secret, token) called at time t with the code that secret
\* `of` had at time T
TotpCalls ==
    [fn : {"verify_totp"},
     args : [secret : {"KA"}, of : {"KA", "KR"}, T : ClockTimes, t : ClockTimes],
     out : {Null}]

InitTotp ==
    /\ InitApp(0)
    /\ calc \in TotpCalls

CallVerifyTotp ==
    /\ calc.fn = "verify_totp"
    /\ calc.out = Null
    /\ calc' = [calc EXCEPT !.out =
                   Some(verify_totp(calc.args.secret,
                                    totp_at(calc.args.of, timecode(calc.args.T)),
                                    calc.args.t))]
    /\ UNCHANGED appvars

SpecTotp == InitTotp /\ [][CallVerifyTotp]_vars

Abs(n) == IF n < 0 THEN 0 - n ELSE n

\* verify_totp has answered about the user's own code of time T
TotpAnswered ==
    /\ calc.fn = "verify_totp"
    /\ calc.out # Null
    /\ calc.args.of = calc.args.secret

\* C22 (amended): a code valid at time T is accepted at every time within 30 s
\* of T, accepted exactly when the 30-second steps of the two times differ
\* by at most one, and rejected at every time 60 s or more away from T
C22_WindowedBySteps ==
    TotpAnswered =>
        LET T == calc.args.T
            t == calc.args.t
            accepted == calc.out[1]
        IN  /\ Abs(t - T) <= TOTP_INTERVAL => accepted
            /\ accepted <=> Abs(timecode(t) - timecode(T)) <= VALID_WINDOW
            /\ Abs(t - T) >= 2 * TOTP_INTERVAL => ~accepted

\* C22 as stated: accepted exactly at the times in [T - 30 s, T + 30 s]
C22_AcceptedExactlyWithin30s ==
    TotpAnswered =>
        (calc.out[1] <=> Abs(calc.args.t - calc.args.T) <= TOTP_INTERVAL)

\* a code is accepted more than 30 s after the time it was valid at
C22_Witness ==
    /\ TotpAnswered
    /\ calc.args.t - calc.args.T > TOTP_INTERVAL
    /\ calc.out = Some(TRUE)


\* number of characters of a password that are chosen freely
MaxFree == 4

\* the lengths of the run of one character that follows the free characters
PadLens == {0, 4, 5}

Repeat(c, n) == [i \in 1..n |-> c]

\* the passwords tried: up to MaxFree characters, then one character repeated
Passwords ==
    UNION {{free \o Repeat(c, n) : free \in [1..k -> Chars]} :
           <<k, c, n>> \in (0..MaxFree) \X Chars \X PadLens}

PolicyCalls ==
    [fn : {"password_policy_ok"}, args : [password : Passwords], out : {Null}]

InitPolicy ==
    /\ InitApp(0)
    /\ calc \in PolicyCalls

CallPasswordPolicy ==
    /\ calc.fn = "password_policy_ok"
    /\ calc.out = Null
    /\ calc' = [calc EXCEPT !.out = Some(password_policy_ok(calc.args.password))]
    /\ UNCHANGED appvars

SpecPolicy == InitPolicy /\ [][CallPasswordPolicy]_vars

\* the five rules in their fixed order
Rules == <<"length", "uppercase", "lowercase", "digit", "symbol">>

Satisfies(rule, p) ==
    CASE rule = "length"    -> Len(p) >= 8
      [] rule = "uppercase" -> \E i \in 1..Len(p) : p[i] = "A"
      [] rule = "lowercase" -> \E i \in 1..Len(p) : p[i] = "a"
      [] rule = "digit"     -> \E i \in 1..Len(p) : p[i] = "1"
      [] rule = "symbol"    -> \E i \in 1..Len(p) : p[i] = "!"

ReasonOf(rule) ==
    CASE rule = "length"    -> "Password must be at least 8 characters long"
      [] rule = "uppercase" -> "Password must contain at least one uppercase letter"
      [] rule = "lowercase" -> "Password must contain at least one lowercase letter"
      [] rule = "digit"     -> "Password must contain at least one number"
      [] rule = "symbol"    ->
            "Password must contain at least one special character (!@#$%^&*)"

Violated(p) == {i \in 1..Len(Rules) : ~Satisfies(Rules[i], p)}

PolicyAnswered ==
    /\ calc.fn = "password_policy_ok"
    /\ calc.out # Null

\* C24: a password that breaks a rule is rejected with the reason of the first
\* rule it breaks in the order length, uppercase, lowercase, digit, symbol;
\* a password that breaks none is accepted
C24_FirstViolatedRule ==
    PolicyAnswered =>
        LET p == calc.args.password
            answer == calc.out[1]
        IN  IF Violated(p) # {}
            THEN LET first == CHOOSE i \in Violated(p) :
                                  \A j \in Violated(p) : i <= j
                 IN  answer = <<FALSE, ReasonOf(Rules[first])>>
            ELSE answer[1] = TRUE

\* a password of 8 characters or more that breaks two later rules is rejected
C24_Witness ==
    /\ PolicyAnswered
    /\ Len(calc.args.password) >= 8
    /\ Cardinality(Violated(calc.args.password)) >= 2
    /\ calc.out[1][1] = FALSE


\* passwords and salts tried; the salts have one length, as token_hex(16) has
HashPasswords == {"p", "p0", "q", ""}

Salts == {"0a", "a0"}

\* longest stored hash tried, in pieces
MaxPieces == 5

HashPieces == {"$", "0a", sha256("p", "0a")}

StoredHashes == UNION {[1..n -> HashPieces] : n \in 0..MaxPieces}

\* verify_password(password, hash_password(p)) with the salt hash_password drew
HashVerifyCalls ==
    [fn : {"hash_password, verify_password"},
     args : [p : HashPasswords, salt : Salts, password : HashPasswords],
     out : {Null}]

\* verify_password(password, stored_hash) on any stored hash
VerifyCalls ==
    [fn : {"verify_password"},
     args : [password : HashPasswords, stored_hash : StoredHashes],
     out : {Null}]

InitHash ==
    /\ InitApp(0)
    /\ \/ calc \in HashVerifyCalls
       \/ calc \in VerifyCalls

CallHashThenVerify ==
    /\ calc.fn = "hash_password, verify_password"
    /\ calc.out = Null
    /\ calc' = [calc EXCEPT !.out =
                   Some(verify_password(calc.args.password,
                                        hash_password(calc.args.p, calc.args.salt)))]
    /\ UNCHANGED appvars

CallVerifyPassword ==
    /\ calc.fn = "verify_password"
    /\ calc.out = Null
    /\ calc' = [calc EXCEPT !.out =
                   Some(verify_password(calc.args.password, calc.args.stored_hash))]
    /\ UNCHANGED appvars

NextHash == CallHashThenVerify \/ CallVerifyPassword

SpecHash == InitHash /\ [][NextHash]_vars

\* number of separators in a stored hash
Separators(str) == Cardinality({i \in 1..Len(str) : str[i] = "$"})

\* C25: verify_password(p, hash_password(p)) is True, verify_password(q,
\* hash_password(p)) is False for q # p, and on a stored hash without a
\* separator (the empty one too) or with more than one, verify_password
\* returns False and raises nothing
C25_VerifyMatchesHash ==
    /\ (calc.fn = "hash_password, verify_password" /\ calc.out # Null) =>
            calc.out = Some(calc.args.password = calc.args.p)
    /\ (calc.fn = "verify_password" /\ calc.out # Null
            /\ Separators(calc.args.stored_hash) # 1) =>
            calc.out = Some(FALSE)

\* the stored hash is a hash of the password followed by a second separator
\* and more, and verify_password has said False
C25_Witness ==
    /\ calc.fn = "verify_password"
    /\ calc.args.password = "p"
    /\ calc.args.stored_hash = hash_password("p", "0a") \o <<"$", "0a">>
    /\ calc.out = Some(FALSE)


\* the notes tried, the IVs the encryption may draw, and the keys: the key of
\* the running module and the key of another run
Notes == {"note", "n", "[Decryption failed]", ""}

IVs == {"iv1", "iv2"}

Keys == {FERNET_KEY, "F"}

\* every piece of every token of the notes, to put in the place of another
Pieces ==
    {fernet_encrypt(k, iv, x)[i] : <<k, iv, x, i>> \in Keys \X IVs \X Notes \X (1..4)}

\* a note about to be encrypted by the module's cipher or by a foreign one
NoteCalls ==
    [fn : {"encrypt_note"},
     args : [plaintext : Notes, iv : IVs, key : Keys,
             ciphertext : {<< >>}, how : {"intact"}],
     out : {Null}]

InitNote ==
    /\ InitApp(0)
    /\ calc \in NoteCalls

\* the note is encrypted: by encrypt_note, or with the foreign key
CallEncryptNote ==
    /\ calc.fn = "encrypt_note"
    /\ LET a == calc.args
           token == IF a.key = FERNET_KEY
                    THEN encrypt_note(a.plaintext, a.iv)
                    ELSE fernet_encrypt(a.key, a.iv, a.plaintext)
       IN  calc' = [calc EXCEPT !.fn = "stored",
                                !.args.ciphertext = token,
                                !.args.how = IF a.key = FERNET_KEY
                                             THEN "intact" ELSE "foreign key"]
    /\ UNCHANGED appvars

\* one piece of the stored ciphertext is replaced by another
Tamper ==
    /\ calc.fn = "stored"
    /\ calc.args.how = "intact"
    /\ \E i \in 1..Len(calc.args.ciphertext), p \in Pieces :
        /\ p # calc.args.ciphertext[i]
        /\ calc' = [calc EXCEPT !.args.ciphertext[i] = p, !.args.how = "tampered"]
    /\ UNCHANGED appvars

\* the stored ciphertext loses its end
Truncate ==
    /\ calc.fn = "stored"
    /\ calc.args.how = "intact"
    /\ \E n \in 0..(Len(calc.args.ciphertext) - 1) :
        calc' = [calc EXCEPT !.args.ciphertext = SubSeq(calc.args.ciphertext, 1, n),
                             !.args.how = "truncated"]
    /\ UNCHANGED appvars

CallDecryptNote ==
    /\ calc.fn = "stored"
    /\ calc' = [calc EXCEPT !.fn = "decrypt_note",
                            !.out = Some(decrypt_note(calc.args.ciphertext))]
    /\ UNCHANGED appvars

NextNote == CallEncryptNote \/ Tamper \/ Truncate \/ CallDecryptNote

SpecNote == InitNote /\ [][NextNote]_vars

\* what decrypt_note returns for the ciphertexts of the non-empty notes
ValidResults == {x \in Notes : x # ""}

\* C23: decrypt_note(encrypt_note(x)) = x for every non-empty x, and for a
\* tampered, truncated or foreign-key ciphertext decrypt_note gives the
\* decryption failure, which no valid ciphertext decrypts to
C23_RoundTripAndDistinctFailure ==
    (calc.fn = "decrypt_note") =>
        LET a == calc.args
            result == calc.out[1]
        IN  /\ (a.how = "intact" /\ a.plaintext # "") => result = a.plaintext
            /\ a.how # "intact" =>
                    /\ result = "[Decryption failed]"
                    /\ result \notin ValidResults


\* ------------------------------------------------ auth.py: register_form
\* The registrations are looked at with the users table as the sequence of
\* its rows in id order, so that two rows of one email can be told apart.

\* an email of a row already, an email of no row, one without a character,
\* one without "@"; the names stand for addresses with an "@"
RegEmails == {"alice", "carol", "", "no-at"}

HasAt(email) == email \notin {"", "no-at"}

\* a password that meets the policy and one that does not
RegPasswords == {<<"A", "a", "1", "!", "_", "_", "_", "_">>, <<"a">>}

\* what new_totp_secret() may draw
NewSecrets == {"KN1", "KN2"}

\* SELECT 1 FROM users WHERE email = ?
user_exists(email) == \E i \in DOMAIN users : users[i].email = email

\* create_user whose table has no UNIQUE constraint on email
create_user_no_unique(email, password_hash, totp_secret, role) ==
    [users |-> Append(users, [id |-> Len(users) + 1, email |-> email,
                              password_hash |-> password_hash,
                              totp_secret |-> totp_secret,
                              failed_login_attempts |-> 0,
                              lockout_until |-> Null, role |-> role]),
     success |-> TRUE]

\* INSERT INTO users ...: the UNIQUE constraint on email makes the INSERT
\* raise, which create_user turns into False
create_user(email, password_hash, totp_secret, role) ==
    IF \E i \in DOMAIN users : users[i].email = email
    THEN [users |-> users, success |-> FALSE]
    ELSE [users |-> Append(users, [id |-> Len(users) + 1, email |-> email,
                                   password_hash |-> password_hash,
                                   totp_secret |-> totp_secret,
                                   failed_login_attempts |-> 0,
                                   lockout_until |-> Null, role |-> role]),
          success |-> TRUE]

InitReg ==
    /\ now = 0
    /\ \E k \in InitAttempts :
        /\ users = <<UserRow(1, "alice", "pw1", "saltA", "KA", "user", k),
                     UserRow(2, "root", "pw2", "saltR", "KR", "admin", 0)>>
        /\ audit = FailedLoginRows("alice", k)
        /\ streak = [e \in Registered |-> IF e = "alice" THEN k ELSE 0]
    /\ sess = [s \in Sessions |-> NewSession(0)]
    /\ pc = [s \in Sessions |-> "idle"]
    /\ loc = [s \in Sessions |-> NoLoc]
    /\ msg = [s \in Sessions |-> NoMsg]
    /\ view = [s \in Sessions |-> NoView]
    /\ runs = 0
    /\ req = [s \in Sessions |-> NoReq]
    /\ last = "s1"
    /\ storage = "ok"
    /\ calc = NoCall

\* the form is submitted: the validation, the policy check and user_exists
RegisterSubmit(s, email, password, password_confirm, role) ==
    /\ StartRun(s, "register", email, join(password), NoCode)
    /\ Page(sess[s]) = "auth"
    /\ IF email = "" \/ ~HasAt(email)
       THEN /\ msg' = [msg EXCEPT ![s] = Msg("Please enter a valid email address", 0)]
            /\ UNCHANGED <<pc, loc>>
       ELSE IF password # password_confirm
       THEN /\ msg' = [msg EXCEPT ![s] = Msg("Passwords do not match", 0)]
            /\ UNCHANGED <<pc, loc>>
       ELSE IF ~password_policy_ok(password)[1]
       THEN /\ msg' = [msg EXCEPT ![s] = Msg(password_policy_ok(password)[2], 0)]
            /\ UNCHANGED <<pc, loc>>
       ELSE IF user_exists(email)
       THEN /\ msg' = [msg EXCEPT ![s] = Msg("Email already registered", 0)]
            /\ UNCHANGED <<pc, loc>>
       ELSE /\ pc' = [pc EXCEPT ![s] = "create_user"]
            /\ loc' = [loc EXCEPT ![s] = [NoLoc EXCEPT !.email = email,
                                                       !.password = join(password),
                                                       !.role = role]]
            /\ msg' = [msg EXCEPT ![s] = NoMsg]
    /\ UNCHANGED <<calc, storage, now, users, audit, sess, view, streak>>

\* new_totp_secret, hash_password, create_user and, when the row was
\* inserted, log_audit
RegisterCreate(s) ==
    /\ pc[s] = "create_user"
    /\ \E totp_secret \in NewSecrets, salt \in Salts :
        LET c == create_user(loc[s].email, hash_password(loc[s].password, salt),
                             totp_secret, loc[s].role)
            r == log_audit(loc[s].email, "User registered", 0, now)
        IN  /\ users' = c.users
            /\ IF c.success
               THEN /\ audit' = r.audit
                    /\ msg' = [msg EXCEPT ![s] =
                                  shown(r, Msg("Account created successfully!", 0))]
               ELSE /\ msg' = [msg EXCEPT ![s] =
                                  Msg("Registration failed. Please try again.", 0)]
                    /\ UNCHANGED audit
    /\ pc' = [pc EXCEPT ![s] = "idle"]
    /\ loc' = [loc EXCEPT ![s] = NoLoc]
    /\ UNCHANGED <<calc, storage, now, sess, view, runs, req, last, streak>>

NextReg ==
    \E s \in Sessions :
        \/ \E email \in RegEmails, password \in RegPasswords,
              password_confirm \in RegPasswords, role \in {"user", "admin"} :
                RegisterSubmit(s, email, password, password_confirm, role)
        \/ RegisterCreate(s)

SpecReg == InitReg /\ [][NextReg]_vars

\* a registration of session s ends in this step
RegistrationEnds(s) ==
    \/ /\ pc[s] = "idle"
       /\ pc'[s] = "idle"
       /\ runs' = runs + 1
       /\ last' = s
       /\ req'[s].op = "register"
    \/ /\ pc[s] = "create_user"
       /\ pc'[s] = "idle"

\* the texts register_form shows with st.error
RegistrationErrors ==
    {"Please enter a valid email address", "Passwords do not match",
     "Email already registered", "Registration failed. Please try again."}
        \cup {ReasonOf(Rules[i]) : i \in 1..Len(Rules)}

C21_Unique ==
    \A i, j \in DOMAIN users : users[i].email = users[j].email => i = j

C21_Step ==
    /\ \A i \in DOMAIN users : i \in DOMAIN users' /\ users'[i] = users[i]
    /\ Len(users') <= Len(users) + 1
    /\ \A s \in Sessions :
        (/\ RegistrationEnds(s)
         /\ HasAt(req'[s].email)
         /\ \E i \in DOMAIN users : users[i].email = req'[s].email) =>
            /\ users' = users
            /\ msg'[s].text \in RegistrationErrors

\* C21: no two user records have the same email; a registration of an email
\* that a record has already, also one that lost the race against another
\* registration of the same new email, creates no record and shows an
\* error; no step changes a field of an existing record
C21_EmailsUnique == []C21_Unique /\ [][C21_Step]_vars

\* two sessions registered the same new email at the same time: the row of
\* the first is there and the second was told that its registration failed
C21_Witness ==
    /\ Len(users) = 3
    /\ users[3].email = "carol"
    /\ req["s1"].email = "carol"
    /\ req["s2"].email = "carol"
    /\ msg["s1"].text = "Account created successfully!"
    /\ msg["s2"].text = "Registration failed. Please try again."

====
